---- MODULE Spec2Model ----
(***************************************************************************)
(* Model of src/optimization.py: the Optuna search over the two strategy   *)
(* parameters (step, priceEncouragement), the logging callback, best-trial *)
(* selection, the best-trial replay and the statistics report.             *)
(*                                                                         *)
(* Numbers are scaled by 100: a drawdown of 0.20 is 20, step 0.1 is 10,    *)
(* priceEncouragement 0.01 is 1.  On this grid float(Decimal) is exact     *)
(* with respect to the comparison against the literal 0.20, so float() is  *)
(* the identity on the modelled values.                                    *)
(*                                                                         *)
(* The simulation and metric engines (module backtesting) are outside      *)
(* src/: every run of an instance is an input of the model, drawn from     *)
(* RunOutcomes (it raises, or it yields a Sharpe ratio and a drawdown).    *)
(* study.optimize, study.best_trial and the in-memory storage follow the   *)
(* behaviour of Optuna >= 3.0 with the arguments the program passes        *)
(* (catch=() by default, one job, direction maximize).                     *)
(***************************************************************************)
EXTENDS Integers, Sequences, FiniteSets, TLC

\* ---------------------------------------------------------------- bounds
\* OPTIMIZATION_CONFIG["no_trials"]
NoTrials == 3
\* OPTIMIZATION_CONFIG["step"] = [StepLo, StepHi], scaled by 100
StepLo == 10
StepHi == 25
\* OPTIMIZATION_CONFIG["priceEncouragement"] = [PeLo, PeHi], scaled by 100
PeLo == 0
PeHi == 1

\* ------------------------------------------------------ program constants
\* step=0.1 of suggest_float("step", ...)
StepQ == 10
\* step=0.01 of suggest_float("priceEncouragement", ...)
PeQ == 1
\* the drawdown limit 0.20
MddLimit == 20

\* MedianPruner() of line 120: n_startup_trials defaults to 5
NStartupTrials == 5

\* header line written by OptunaCallBack.__init__
Header == "number,step,priceEncouragement,sharpe_ratio,mdd,valid"

\* ----------------------------------------------------------------- inputs
\* float(sharpe_ratio) of a run, scaled by 100
SharpeOutcomes == {120, 150}
\* float(mdd) of a run, scaled by 100 (drawdowns are usually negative)
MddOutcomes == {-25, -20, 0}
\* what one Backtesting.run followed by the metric calls can give
RunOutcomes ==
    {[ok |-> FALSE, sharpe |-> 0, mdd |-> 0]}
    \cup {[ok |-> TRUE, sharpe |-> s, mdd |-> m] : s \in SharpeOutcomes, m \in MddOutcomes}

VARIABLES
    pc,             \* position of the main program
    log,            \* lines of result/optimization/optimization.log.csv
    trials,         \* study.trials: the trial ledger, trials[n+1] has number n
    best_trial_id,  \* the storage's cached best trial number, -1 for None
    bts,            \* the Backtesting instances objective() constructed, in order
    objective_bt,   \* objective.bt: index into bts, 0 while the attribute is unset
    callback_bt,    \* optunaCallBack.bt: index into bts, 0 for dummy_bt
    calls,          \* number of the trial of each callback invocation, in order
    trial,          \* the variable trial of line 133: best trial number, -1 before
    bt_best,        \* the replay instance of line 140 and what its run gave
    printed,        \* lines printed on stdout
    runs            \* the instance of each Backtesting.run call, in order

vars == <<pc, log, trials, best_trial_id, bts, objective_bt, callback_bt, calls,
          trial, bt_best, printed, runs>>

\* ---------------------------------------------------------------- helpers
Abs(x) == IF x < 0 THEN -x ELSE x

\* dict lookup d[k], a dict being a set of <<key, value>> pairs
Get(d, k) == (CHOOSE p \in d : p[1] = k)[2]

\* mutant of SuggestFloat: the upper bound is proposed even when it is off
\* the grid
SuggestFloatKeepsHigh(lo, hi, q) == {lo + k * q : k \in 0 .. ((hi - lo) \div q)} \cup {hi}

\* the values suggest_float(name, lo, hi, step=q) can return
SuggestFloat(lo, hi, q) == {lo + k * q : k \in 0 .. ((hi - lo) \div q)}

\* mutants of ConstraintViolated: the sign of the drawdown is not dropped;
\* the limit itself counts as a violation
ConstraintViolatedNoAbs(mdd) == mdd > MddLimit
ConstraintViolatedAtLimit(mdd) == Abs(mdd) >= MddLimit

\* line 99: abs(float(mdd)) > 0.20
ConstraintViolated(mdd) == Abs(mdd) > MddLimit

\* mutant of Valid: the limit itself is not valid
ValidBelowLimit(mdd) == Abs(mdd) < MddLimit

\* line 53: valid = abs(float(mdd)) <= 0.20
Valid(mdd) == Abs(mdd) <= MddLimit

\* mutant of Improves: a tie replaces the best trial
ImprovesOrTies(bestValue, newValue) == bestValue <= newValue

\* direction="maximize": the storage replaces its best trial when best < new
Improves(bestValue, newValue) == bestValue < newValue

\* mutant of NewTrial: trials are numbered by the count of COMPLETE trials
NewTrialCountsComplete(ts) ==
    [number |-> Cardinality({i \in 1 .. Len(ts) : ts[i].state = "COMPLETE"}),
     state |-> "RUNNING", params |-> {}, values |-> <<>>]

\* storage.create_new_trial: the next number, state RUNNING, nothing else
NewTrial(ts) == [number |-> Len(ts), state |-> "RUNNING", params |-> {}, values |-> <<>>]

\* InMemoryStorage._update_cache, called when a trial becomes COMPLETE
UpdateCache(ts, best, n) ==
    IF best = -1 THEN n
    ELSE IF Improves(ts[best + 1].values[1], ts[n + 1].values[1]) THEN n
    ELSE best

Last == Len(trials)

\* mutant of Catch: study.optimize is given catch=(Exception,)
CatchAll == TRUE

\* study.optimize is called without catch=: an exception of objective() is
\* not caught by the loop
Catch == FALSE

\* mutant of RunInstance: every trial runs the instance of line 75
RunInstanceShared(n) == <<"bt_temp", 0>>

\* lines 89-90: run() is called on the instance constructed in this call of
\* objective(), the n-th of bts
RunInstance(n) == <<"bt", n>>

\* mutant of StoredBt: objective.bt is assigned after the drawdown check
StoredBtAfterCheck(old, new, mdd) == IF ConstraintViolated(mdd) THEN old ELSE new

\* line 96: objective.bt = bt, before the drawdown check of line 99
StoredBt(old, new, mdd) == new

\* -------------------------------------------------------------- the program
Init ==
    /\ pc = "start"
    /\ log = <<>>
    /\ trials = <<>>
    /\ best_trial_id = -1
    /\ bts = <<>>
    /\ objective_bt = 0
    /\ callback_bt = 0
    /\ calls = <<>>
    /\ trial = -1
    /\ bt_best = [ran |-> FALSE, ok |-> FALSE, sharpe |-> 0, mdd |-> 0]
    /\ printed = <<>>
    /\ runs = <<>>

\* mutant of OptunaCallBackInit: the header is not written
OptunaCallBackInitNoHeader ==
    /\ pc = "start"
    /\ log' = <<>>
    /\ callback_bt' = 0
    /\ pc' = "optimize"
    /\ UNCHANGED <<trials, best_trial_id, bts, objective_bt, calls, trial, bt_best, printed, runs>>

\* lines 107-108, 19-35: OptunaCallBack(dummy_bt) opens the log with mode "w"
\* and writes the header
OptunaCallBackInit ==
    /\ pc = "start"
    /\ log' = <<[line |-> Header]>>
    /\ callback_bt' = 0
    /\ pc' = "optimize"
    /\ UNCHANGED <<trials, best_trial_id, bts, objective_bt, calls, trial, bt_best, printed, runs>>

\* mutant of Ask: the next trial is created without waiting for the callback
AskBeforeCallback ==
    /\ pc \in {"optimize", "callback"}
    /\ Len(trials) < NoTrials
    /\ trials' = Append(trials, NewTrial(trials))
    /\ pc' = "objective"
    /\ UNCHANGED <<log, best_trial_id, bts, objective_bt, callback_bt, calls, trial,
                   bt_best, printed, runs>>

\* study.optimize, next iteration: study.ask() creates the trial
Ask ==
    /\ pc = "optimize"
    /\ Len(trials) < NoTrials
    /\ trials' = Append(trials, NewTrial(trials))
    /\ pc' = "objective"
    /\ UNCHANGED <<log, best_trial_id, bts, objective_bt, callback_bt, calls, trial,
                   bt_best, printed, runs>>

\* mutant of Objective: the objective also asks a pruner without warm-up,
\* which prunes a trial whose Sharpe ratio is below the best so far
ObjectiveAsksPruner ==
    /\ pc = "objective"
    /\ \E step \in SuggestFloat(StepLo, StepHi, StepQ),
          priceEncouragement \in SuggestFloat(PeLo, PeHi, PeQ),
          run \in RunOutcomes :
        LET params == {<<"step", step>>, <<"priceEncouragement", priceEncouragement>>}
            below == /\ best_trial_id # -1
                     /\ run.sharpe < trials[best_trial_id + 1].values[1]
        IN  /\ bts' = Append(bts, run)
            /\ runs' = Append(runs, RunInstance(Len(bts')))
            /\ IF ~run.ok
               THEN /\ trials' = [trials EXCEPT ![Last].params = params,
                                                ![Last].state = "FAIL"]
                    /\ pc' = "error"
                    /\ UNCHANGED <<objective_bt, best_trial_id>>
               ELSE /\ objective_bt' = Len(bts')
                    /\ pc' = "callback"
                    /\ IF ConstraintViolated(run.mdd) \/ below
                       THEN /\ trials' = [trials EXCEPT ![Last].params = params,
                                                        ![Last].state = "PRUNED"]
                            /\ UNCHANGED best_trial_id
                       ELSE /\ trials' = [trials EXCEPT ![Last].params = params,
                                                        ![Last].state = "COMPLETE",
                                                        ![Last].values = <<run.sharpe>>]
                            /\ best_trial_id' = UpdateCache(trials', best_trial_id, Last - 1)
    /\ UNCHANGED <<log, callback_bt, calls, trial, bt_best, printed>>

\* lines 78-104, and what _run_trial does with the outcome: a return value
\* makes the trial COMPLETE, TrialPruned makes it PRUNED, any other
\* exception makes it FAIL and is raised again out of study.optimize
\* (catch is not passed)
Objective ==
    /\ pc = "objective"
    /\ \E step \in SuggestFloat(StepLo, StepHi, StepQ),
          priceEncouragement \in SuggestFloat(PeLo, PeHi, PeQ),
          run \in RunOutcomes :
        LET params == {<<"step", step>>, <<"priceEncouragement", priceEncouragement>>}
        IN  /\ bts' = Append(bts, run)
            /\ runs' = Append(runs, RunInstance(Len(bts')))
            /\ IF ~run.ok
               THEN /\ trials' = [trials EXCEPT ![Last].params = params,
                                                ![Last].state = "FAIL"]
                    /\ pc' = IF Catch THEN "callback" ELSE "error"
                    /\ UNCHANGED <<objective_bt, best_trial_id>>
               ELSE /\ objective_bt' = StoredBt(objective_bt, Len(bts'), run.mdd)
                    /\ pc' = "callback"
                    /\ IF ConstraintViolated(run.mdd)
                       THEN /\ trials' = [trials EXCEPT ![Last].params = params,
                                                        ![Last].state = "PRUNED"]
                            /\ UNCHANGED best_trial_id
                       ELSE /\ trials' = [trials EXCEPT ![Last].params = params,
                                                        ![Last].state = "COMPLETE",
                                                        ![Last].values = <<run.sharpe>>]
                            /\ best_trial_id' = UpdateCache(trials', best_trial_id, Last - 1)
    /\ UNCHANGED <<log, callback_bt, calls, trial, bt_best, printed>>

\* mutant of Interrupt: the interrupt is not caught around objective() and
\* the trial keeps its state
InterruptLeavesRunning ==
    /\ pc \in {"optimize", "objective", "callback"}
    /\ pc' = "interrupted"
    /\ UNCHANGED <<log, trials, best_trial_id, bts, objective_bt, callback_bt, calls,
                   trial, bt_best, printed, runs>>

\* KeyboardInterrupt (Ctrl-C) during study.optimize: while objective() runs,
\* _run_trial marks the trial FAIL and raises the interrupt again; between
\* trials and in the callback no trial is RUNNING and the interrupt just
\* ends the program
Interrupt ==
    /\ pc \in {"optimize", "objective", "callback"}
    /\ trials' = IF pc = "objective"
                 THEN [trials EXCEPT ![Last].state = "FAIL"]
                 ELSE trials
    /\ pc' = "interrupted"
    /\ UNCHANGED <<log, best_trial_id, bts, objective_bt, callback_bt, calls, trial,
                   bt_best, printed, runs>>

\* lines 45-70: the record OptunaCallBack.__call__ writes for frozen trial t
\* with self.bt = bt (0: the dummy instance, which never ran)
Record(t, bt) ==
    IF bt # 0 /\ bts[bt].ok
    THEN [number |-> t.number,
          step |-> Get(t.params, "step"),
          priceEncouragement |-> Get(t.params, "priceEncouragement"),
          sharpe_ratio |-> <<bts[bt].sharpe>>,
          mdd |-> <<bts[bt].mdd>>,
          valid |-> Valid(bts[bt].mdd)]
    ELSE [number |-> t.number,
          step |-> Get(t.params, "step"),
          priceEncouragement |-> Get(t.params, "priceEncouragement"),
          sharpe_ratio |-> <<>>,
          mdd |-> <<>>,
          valid |-> FALSE]

\* lines 111-114, 37-70: updated_callback(study, frozen_trial)
UpdatedCallback ==
    /\ pc = "callback"
    /\ callback_bt' = IF objective_bt # 0 THEN objective_bt ELSE callback_bt
    /\ log' = Append(log, Record(trials[Last], callback_bt'))
    /\ calls' = Append(calls, trials[Last].number)
    /\ pc' = "optimize"
    /\ UNCHANGED <<trials, best_trial_id, bts, objective_bt, trial, bt_best, printed, runs>>

\* study.optimize returns after n_trials trials
OptimizeReturn ==
    /\ pc = "optimize"
    /\ Len(trials) >= NoTrials
    /\ pc' = "best"
    /\ UNCHANGED <<log, trials, best_trial_id, bts, objective_bt, callback_bt, calls,
                   trial, bt_best, printed, runs>>

\* mutant of BestTrial: without a COMPLETE trial the best-trial lines are
\* skipped and the program goes on to the statistics
BestTrialNoRaise ==
    /\ pc = "best"
    /\ IF best_trial_id = -1
       THEN /\ printed' = printed \o <<<<"Optimization completed!", 0>>, <<"Best trial:", 0>>>>
            /\ pc' = "statistics"
            /\ UNCHANGED trial
       ELSE /\ trial' = best_trial_id
            /\ printed' = printed \o
                 << <<"Optimization completed!", 0>>,
                    <<"Best trial:", 0>>,
                    <<"Sharpe Ratio", trials[best_trial_id + 1].values[1]>>,
                    <<"step", Get(trials[best_trial_id + 1].params, "step")>>,
                    <<"priceEncouragement",
                      Get(trials[best_trial_id + 1].params, "priceEncouragement")>> >>
            /\ pc' = "replay"
    /\ UNCHANGED <<log, trials, best_trial_id, bts, objective_bt, callback_bt, calls, bt_best,
                   runs>>

\* lines 131-137: study.best_trial raises ValueError when no trial is COMPLETE
BestTrial ==
    /\ pc = "best"
    /\ IF best_trial_id = -1
       THEN /\ printed' = printed \o <<<<"Optimization completed!", 0>>, <<"Best trial:", 0>>>>
            /\ pc' = "error"
            /\ UNCHANGED trial
       ELSE /\ trial' = best_trial_id
            /\ printed' = printed \o
                 << <<"Optimization completed!", 0>>,
                    <<"Best trial:", 0>>,
                    <<"Sharpe Ratio", trials[best_trial_id + 1].values[1]>>,
                    <<"step", Get(trials[best_trial_id + 1].params, "step")>>,
                    <<"priceEncouragement",
                      Get(trials[best_trial_id + 1].params, "priceEncouragement")>> >>
            /\ pc' = "replay"
    /\ UNCHANGED <<log, trials, best_trial_id, bts, objective_bt, callback_bt, calls, bt_best,
                   runs>>

\* lines 139-143: run the best parameters again on a new instance, print its MDD
Replay ==
    /\ pc = "replay"
    /\ \E run \in RunOutcomes :
        /\ bt_best' = [ran |-> TRUE, ok |-> run.ok, sharpe |-> run.sharpe, mdd |-> run.mdd]
        /\ runs' = Append(runs, <<"bt_best", 0>>)
        /\ IF run.ok
           THEN /\ printed' = Append(printed, <<"MDD", run.mdd>>)
                /\ pc' = "statistics"
           ELSE /\ pc' = "error"
                /\ UNCHANGED printed
    /\ UNCHANGED <<log, trials, best_trial_id, bts, objective_bt, callback_bt, calls, trial>>

CountState(s) == Cardinality({i \in 1 .. Len(trials) : trials[i].state = s})

\* lines 145-152
Statistics ==
    /\ pc = "statistics"
    /\ printed' = printed \o
         << <<"Completed trials", CountState("COMPLETE")>>,
            <<"Pruned trials (MDD > 20%)", CountState("PRUNED")>>,
            <<"Total trials", Len(trials)>> >>
    /\ pc' = "done"
    /\ UNCHANGED <<log, trials, best_trial_id, bts, objective_bt, callback_bt, calls,
                   trial, bt_best, runs>>

Next ==
    \/ OptunaCallBackInit
    \/ Ask
    \/ Objective
    \/ Interrupt
    \/ UpdatedCallback
    \/ OptimizeReturn
    \/ BestTrial
    \/ Replay
    \/ Statistics

Spec == Init /\ [][Next]_vars

\* ------------------------------------------------------------------ claims
Finalized(i) == trials[i].state # "RUNNING"
Complete(i) == trials[i].state = "COMPLETE"
Pruned(i) == trials[i].state = "PRUNED"
Failed(i) == trials[i].state = "FAIL"
Trials == 1 .. Len(trials)

\* C1: the trial reported as best (and the storage's cached best at any time)
\* is a COMPLETE trial whose evaluation had |mdd| <= 0.20; a trial whose
\* drawdown exceeded 0.20 is never the best, whatever its Sharpe ratio.
C1_BestIsFeasible ==
    \A b \in {trial, best_trial_id} \ {-1} :
        /\ Complete(b + 1)
        /\ bts[b + 1].ok
        /\ Abs(bts[b + 1].mdd) <= MddLimit

\* a best trial has been reported although a trial over the drawdown limit
\* had a greater Sharpe ratio
C1_Witness ==
    /\ trial # -1
    /\ \E i \in Trials :
        /\ Abs(bts[i].mdd) > MddLimit
        /\ bts[i].sharpe > trials[trial + 1].values[1]

\* C2 (as claimed): when the evaluation of a trial raises, the trial becomes
\* FAILED and the loop goes on (to the callback and the next trial).
C2_FailedTrialContinues ==
    [][(pc = "objective" /\ pc' # "interrupted" /\ trials'[Last].state = "FAIL")
        => pc' = "callback"]_vars

\* C3: the selected best trial is COMPLETE, no COMPLETE trial has a greater
\* objective, and every COMPLETE trial with the same objective has a greater
\* or equal number; PRUNED and FAILED trials are never selected.
C3_BestIsGreatestEarliest ==
    trial # -1 =>
        /\ Complete(trial + 1)
        /\ \A i \in Trials : Complete(i) =>
            \/ trials[i].values[1] < trials[trial + 1].values[1]
            \/ /\ trials[i].values[1] = trials[trial + 1].values[1]
               /\ trial <= trials[i].number

\* the best is selected among two COMPLETE trials with the same objective,
\* with a PRUNED trial of greater Sharpe ratio in the ledger
C3_Witness ==
    /\ trial # -1
    /\ \E i \in Trials :
        /\ Complete(i)
        /\ trials[i].number > trial
        /\ trials[i].values[1] = trials[trial + 1].values[1]
    /\ \E i \in Trials : Pruned(i) /\ bts[i].sharpe > trials[trial + 1].values[1]

\* C4: a trial is RUNNING only while its objective runs and is otherwise in
\* one of COMPLETE, PRUNED, FAIL; a finalized trial never changes; a
\* COMPLETE trial had |mdd| <= 0.20 and has an objective value; a PRUNED
\* trial had |mdd| > 0.20.
C4_StatesSound ==
    \A i \in Trials :
        /\ trials[i].state \in {"RUNNING", "COMPLETE", "PRUNED", "FAIL"}
        /\ ~Finalized(i) => (i = Last /\ pc = "objective")
        /\ Complete(i) =>
            /\ bts[i].ok
            /\ Abs(bts[i].mdd) <= MddLimit
            /\ trials[i].values = <<bts[i].sharpe>>
        /\ Pruned(i) => (bts[i].ok /\ Abs(bts[i].mdd) > MddLimit)
        /\ ~Complete(i) => trials[i].values = <<>>

C4_TerminalImmutable ==
    \A i \in Trials : Finalized(i) => (i <= Len(trials') /\ trials'[i] = trials[i])

C4_TrialStates == []C4_StatesSound /\ [][C4_TerminalImmutable]_vars

\* the ledger holds a COMPLETE trial at the limit and a PRUNED one, and the
\* program has moved on after them
C4_Witness ==
    /\ pc = "done"
    /\ \E i \in Trials : Complete(i) /\ Abs(bts[i].mdd) = MddLimit
    /\ \E i \in Trials : Pruned(i)

\* C5 (as claimed): every finalized trial, FAILED ones included, has had
\* exactly one callback invocation and has exactly one log record once its
\* callback is over; the record of a FAILED trial has empty sharpe_ratio
\* and mdd fields and valid=False.
C5_CallbackOncePerTrial ==
    \A i \in Trials :
        (Finalized(i) /\ ~(i = Last /\ pc = "callback") /\ pc # "interrupted") =>
            /\ Cardinality({k \in 1 .. Len(calls) : calls[k] = trials[i].number}) = 1
            /\ Cardinality({k \in 2 .. Len(log) : log[k].number = trials[i].number}) = 1
            /\ Failed(i) =>
                \A k \in 2 .. Len(log) : log[k].number = trials[i].number =>
                    /\ log[k].sharpe_ratio = <<>>
                    /\ log[k].mdd = <<>>
                    /\ log[k].valid = FALSE

\* C6 (as claimed): without cancellation, once the program has left the
\* search loop the ledger holds exactly NoTrials trials, none RUNNING.
C6_BudgetExhausted ==
    pc \in {"best", "replay", "statistics", "done", "error"} =>
        /\ Len(trials) = NoTrials
        /\ \A i \in Trials : Finalized(i)

\* C7 (as claimed): a replay whose Sharpe ratio differs from the best
\* trial's recorded objective does not lead to the report being printed and
\* the run completing normally.
C7_ReplayMismatchAborts ==
    (bt_best.ran /\ bt_best.ok /\ bt_best.sharpe # trials[trial + 1].values[1])
        => pc \notin {"statistics", "done"}

\* C8: an interrupt that arrives while a trial is RUNNING leaves that trial
\* FAIL; after an interrupt no trial of the ledger is RUNNING.
C8_NoRunningAfterCancel ==
    pc = "interrupted" => \A i \in Trials : Finalized(i)

C8_CancelFailsRunning ==
    \A i \in Trials :
        (~Finalized(i) /\ pc' = "interrupted") => trials'[i].state = "FAIL"

C9_TrialNumbers ==
    \A i \in Trials : trials[i].number = i - 1

\* the whole budget was used, with a PRUNED trial before the last one
C9_Witness ==
    /\ Len(trials) = NoTrials
    /\ \E i \in Trials : Pruned(i) /\ i < Last
    /\ pc = "done"

\* C10: the log starts with the header line, written once, and continues
\* with the trial records in the order of the callback invocations, their
\* trial numbers strictly increasing.
C10_LogOrder ==
    /\ pc = "start" => log = <<>>
    /\ pc # "start" =>
        /\ Len(log) = Len(calls) + 1
        /\ log[1] = [line |-> Header]
        /\ \A k \in 2 .. Len(log) :
            /\ DOMAIN log[k] # {"line"}
            /\ log[k].number = calls[k - 1]
        /\ \A j, k \in 2 .. Len(log) : j < k => log[j].number < log[k].number

\* the log holds the header and one record per trial of the budget
C10_Witness ==
    /\ Len(log) = NoTrials + 1
    /\ pc = "done"

\* the evaluation of trial i returned (no exception) with this drawdown test
Evaluated(i) == i <= Len(bts) /\ bts[i].ok
OverLimit(i) == Abs(bts[i].mdd) > MddLimit

\* C11: a trial among the first NStartupTrials (5) trials is PRUNED only
\* when its evaluation found |mdd| > 0.20: the pruner prunes none of them.
C11_WarmUpNoPruner ==
    \A i \in Trials :
        (i <= NStartupTrials /\ Pruned(i)) => (Evaluated(i) /\ OverLimit(i))

\* among the first trials, one with a Sharpe ratio below an earlier
\* COMPLETE trial's was kept, and a later one was PRUNED for its drawdown
C11_Witness ==
    \E i, j, k \in Trials :
        /\ i < j /\ j < k /\ k <= NStartupTrials
        /\ Complete(i) /\ Complete(j) /\ Pruned(k)
        /\ trials[j].values[1] < trials[i].values[1]

\* a value v of suggest_float(lo, hi, step=q): within the bounds and a
\* multiple of q away from lo
OnGrid(v, lo, hi, q) == lo <= v /\ v <= hi /\ (v - lo) % q = 0

C13_CallbackStep ==
    calls' # calls =>
        LET n == calls'[Len(calls')]
            rec == log'[Len(log')]
        IN  /\ Len(calls') = Len(calls) + 1
            /\ callback_bt' # 0
            /\ runs[n + 1] = <<"bt", callback_bt'>>
            /\ rec.number = n
            /\ rec.sharpe_ratio = <<bts[callback_bt'].sharpe>>
            /\ rec.mdd = <<bts[callback_bt'].mdd>>
            /\ rec.valid = Valid(bts[callback_bt'].mdd)

C13_OwnInstance == [][C13_CallbackStep]_vars

\* the record of a PRUNED second trial carries its own drawdown, not the
\* first trial's
C13_Witness ==
    /\ Len(log) >= 3
    /\ Pruned(2)
    /\ Complete(1)
    /\ log[3].mdd = <<bts[2].mdd>>
    /\ log[3].mdd # log[2].mdd

\* C14: no instance has run() called on it twice; every evaluation runs the
\* instance constructed in it, the replay runs bt_best, and the instances
\* bt_temp and dummy_bt are never run.
C14_FreshInstances ==
    /\ \A j, k \in 1 .. Len(runs) : j # k => runs[j] # runs[k]
    /\ \A j \in 1 .. Len(runs) :
        \/ j <= Len(bts) /\ runs[j] = <<"bt", j>>
        \/ j = Len(bts) + 1 /\ runs[j] = <<"bt_best", 0>> /\ bt_best.ran
    /\ Len(runs) = Len(bts) + (IF bt_best.ran THEN 1 ELSE 0)

\* every trial of the budget and the replay have run
C14_Witness ==
    /\ Len(runs) = NoTrials + 1
    /\ pc = "done"

\* C15: at most one trial is RUNNING, it is the last of the ledger; when
\* trial n+1 exists, trial n is final and its callback has returned.
C15_OneAtATime ==
    /\ Cardinality({i \in Trials : ~Finalized(i)}) <= 1
    /\ \A i \in Trials : i < Last =>
        /\ Finalized(i)
        /\ i <= Len(calls)
        /\ calls[i] = trials[i].number

\* the last trial of the budget is RUNNING after the callbacks of the others
C15_Witness ==
    /\ Len(trials) = NoTrials
    /\ ~Finalized(Last)
    /\ Len(calls) = NoTrials - 1

C17_ValidMatchesState ==
    \A k \in 2 .. Len(log) : log[k].mdd # <<>> =>
        /\ log[k].valid <=> Complete(log[k].number + 1)
        /\ ~log[k].valid <=> Pruned(log[k].number + 1)

\* the log holds a valid record of a trial at the drawdown limit and a
\* record that is not valid
C17_Witness ==
    /\ \E k \in 2 .. Len(log) : log[k].valid /\ Abs(log[k].mdd[1]) = MddLimit
    /\ \E k \in 2 .. Len(log) : log[k].mdd # <<>> /\ ~log[k].valid

Headings == << <<"Optimization completed!", 0>>, <<"Best trial:", 0>> >>
Labels == {printed[k][1] : k \in 1 .. Len(printed)}
NoComplete == \A i \in Trials : ~Complete(i)
SearchOver == pc \in {"best", "replay", "statistics", "done", "error"}

PrintedValue(label) == printed[CHOOSE k \in 1 .. Len(printed) : printed[k][1] = label][2]

\* C19: when the statistics are printed, the printed number of completed
\* trials plus the printed number of pruned trials is the printed total.
C19_CountsAddUp ==
    "Total trials" \in Labels =>
        PrintedValue("Completed trials") + PrintedValue("Pruned trials (MDD > 20%)")
            = PrintedValue("Total trials")

\* the statistics were printed for a run with COMPLETE and PRUNED trials
C19_Witness ==
    /\ "Total trials" \in Labels
    /\ PrintedValue("Completed trials") > 0
    /\ PrintedValue("Pruned trials (MDD > 20%)") > 0

====
